---- MODULE Spec2Model ----
(***************************************************************************)
(* Model of src/playlist_logic.py: song normalisation, mood               *)
(* classification, playlist building, merging, statistics, most common    *)
(* artist and the random pick.                                             *)
(*                                                                         *)
(* Python values are tagged records [t |-> type, v |-> payload]:          *)
(*   t = "str"  : v is the sequence of the string's characters            *)
(*   t = "int"  : v is the integer                                        *)
(*   t = "none" : Python's None (v is 0, unused)                          *)
(*   t = "list" : v is a sequence of character sequences (list of str)    *)
(*   t = "bool" : v is the boolean                                        *)
(* Floats are not among the values modelled; the one float results, the   *)
(* ratios of compute_playlist_stats, are kept as fractions.               *)
(* A song is a function from field names to tagged values; an absent key  *)
(* is a field name outside its DOMAIN.  A playlist map is an insertion    *)
(* ordered dict: a sequence of entries [k |-> key, v |-> songs].          *)
(* A call's outcome is [exc |-> "none", val |-> value] or, when the call  *)
(* raises, [exc |-> "TypeError", val |-> <<>>].                           *)
(***************************************************************************)
EXTENDS Integers, Sequences, FiniteSets, TLC

VARIABLES profile, fed, library, op, arg, ret

vars == <<profile, fed, library, op, arg, ret>>

\* ------------------------------------------------------------ bounds

\* Longest sequence of raw songs handed to one build_playlists call, and the
\* most songs a session's library holds.
MaxSongs == 3

\* Longest sequence of songs handed to most_common_artist.
MaxArtistSongs == 3

\* Longest bucket of the playlist maps handed to merge_playlists,
\* compute_playlist_stats and lucky_pick directly.
MaxBucket == 2

\* ------------------------------------------------------- Python values

StrV(s) == [t |-> "str", v |-> s]

IntV(n) == [t |-> "int", v |-> n]

NoneV == [t |-> "none", v |-> 0]

ListV(l) == [t |-> "list", v |-> l]

BoolV(b) == [t |-> "bool", v |-> b]

Ok(x) == [exc |-> "none", val |-> x]

Raise(e) == [exc |-> e, val |-> <<>>]

\* dict.get(key, default) on a song or a profile
Get(d, key, default) == IF key \in DOMAIN d THEN d[key] ELSE default

\* bool(value): the truth value Python gives a value
Truthy(x) ==
    CASE x.t = "str" -> x.v # <<>>
      [] x.t = "int" -> x.v # 0
      [] x.t = "none" -> FALSE
      [] x.t = "list" -> x.v # <<>>
      [] x.t = "bool" -> x.v

\* ------------------------------------------------------------ strings

Whitespace == {" ", "\t", "\n"}

UpperChars == <<"A", "B", "C", "D", "E", "F", "G", "H", "I", "J", "K", "L", "M",
                "N", "O", "P", "Q", "R", "S", "T", "U", "V", "W", "X", "Y", "Z">>

LowerChars == <<"a", "b", "c", "d", "e", "f", "g", "h", "i", "j", "k", "l", "m",
                "n", "o", "p", "q", "r", "s", "t", "u", "v", "w", "x", "y", "z">>

Digits == <<"0", "1", "2", "3", "4", "5", "6", "7", "8", "9">>

\* str.lower() on one character
LowerChar(c) ==
    IF \E i \in DOMAIN UpperChars : UpperChars[i] = c
    THEN LowerChars[CHOOSE i \in DOMAIN UpperChars : UpperChars[i] = c]
    ELSE c

\* str.lower()
Lower(s) == [i \in DOMAIN s |-> LowerChar(s[i])]

RECURSIVE LStrip(_)
LStrip(s) ==
    IF s # <<>> /\ s[1] \in Whitespace THEN LStrip(Tail(s)) ELSE s

RECURSIVE RStrip(_)
RStrip(s) ==
    IF s # <<>> /\ s[Len(s)] \in Whitespace
    THEN RStrip(SubSeq(s, 1, Len(s) - 1))
    ELSE s

\* Strip with at most one character removed from each end.
StripOnce(s) ==
    LET l == IF s # <<>> /\ s[1] \in Whitespace THEN Tail(s) ELSE s
    IN  IF l # <<>> /\ l[Len(l)] \in Whitespace
        THEN SubSeq(l, 1, Len(l) - 1)
        ELSE l

\* str.strip()
Strip(s) == RStrip(LStrip(s))

\* sub in s
Contains(sub, s) ==
    \E i \in 0..(Len(s) - Len(sub)) : SubSeq(s, i + 1, i + Len(sub)) = sub

IsDigit(c) == \E i \in DOMAIN Digits : Digits[i] = c

DigitVal(c) == (CHOOSE i \in DOMAIN Digits : Digits[i] = c) - 1

RECURSIVE DigitsToNat(_)
DigitsToNat(s) ==
    IF s = <<>> THEN 0
    ELSE 10 * DigitsToNat(SubSeq(s, 1, Len(s) - 1)) + DigitVal(s[Len(s)])

RECURSIVE NatToDigits(_)
NatToDigits(n) ==
    IF n < 10 THEN <<Digits[n + 1]>>
    ELSE NatToDigits(n \div 10) \o <<Digits[(n % 10) + 1]>>

\* int(text): surrounding whitespace and one sign are accepted, then decimal
\* digits; anything else raises ValueError.
ParseInt(s) ==
    LET body == Strip(s)
        signed == body # <<>> /\ body[1] \in {"+", "-"}
        digits == IF signed THEN Tail(body) ELSE body
    IN  IF digits # <<>> /\ \A i \in DOMAIN digits : IsDigit(digits[i])
        THEN Ok(IF signed /\ body[1] = "-"
                THEN 0 - DigitsToNat(digits)
                ELSE DigitsToNat(digits))
        ELSE Raise("ValueError")

RECURSIVE JoinRepr(_)
JoinRepr(l) ==
    IF l = <<>> THEN <<>>
    ELSE <<"'">> \o l[1] \o <<"'">>
         \o (IF Len(l) > 1 THEN <<",", " ">> ELSE <<>>)
         \o JoinRepr(Tail(l))

\* str(value)
PyStr(x) ==
    CASE x.t = "str" -> x.v
      [] x.t = "int" -> IF x.v < 0 THEN <<"-">> \o NatToDigits(0 - x.v)
                        ELSE NatToDigits(x.v)
      [] x.t = "none" -> <<"N", "o", "n", "e">>
      [] x.t = "list" -> <<"[">> \o JoinRepr(x.v) \o <<"]">>
      [] x.t = "bool" -> IF x.v THEN <<"T", "r", "u", "e">>
                         ELSE <<"F", "a", "l", "s", "e">>

\* ---------------------------------------------------------- constants

HYPE_KEYWORDS == <<<<"r", "o", "c", "k">>, <<"p", "u", "n", "k">>,
                   <<"p", "a", "r", "t", "y">>>>

CHILL_KEYWORDS == <<<<"l", "o", "f", "i">>, <<"a", "m", "b", "i", "e", "n", "t">>,
                    <<"s", "l", "e", "e", "p">>>>

DEFAULT_PROFILE ==
    [name |-> StrV(<<"D", "e", "f", "a", "u", "l", "t">>),
     hype_min_energy |-> IntV(7),
     chill_max_energy |-> IntV(3),
     favorite_genre |-> StrV(<<"r", "o", "c", "k">>),
     include_mixed |-> BoolV(TRUE)]

\* --------------------------------------------------------- normaliser

normalize_string(value, lowercase) ==
    IF value.t # "str" THEN <<>>
    ELSE LET normalized == Strip(value.v)
         IN  IF lowercase THEN Lower(normalized) ELSE normalized

normalize_title(title) == normalize_string(title, FALSE)

normalize_artist(artist) == normalize_string(artist, TRUE)

normalize_genre(genre) == normalize_string(genre, TRUE)

\* energy = raw.get("energy", 0), then the int() coercion of a str
CoerceEnergy(raw) ==
    LET energy == Get(raw, "energy", IntV(0))
    IN  IF energy.t = "str"
        THEN LET parsed == ParseInt(energy.v)
             IN  IF parsed.exc = "none" THEN IntV(parsed.val) ELSE IntV(0)
        ELSE energy

\* tags = raw.get("tags", []), a single str wrapped into a list
WrapTags(raw) ==
    LET tags == Get(raw, "tags", ListV(<<>>))
    IN  IF tags.t = "str" THEN ListV(<<tags.v>>) ELSE tags

normalize_song(raw) ==
    LET title == normalize_title(StrV(PyStr(Get(raw, "title", StrV(<<>>)))))
        artist == normalize_artist(StrV(PyStr(Get(raw, "artist", StrV(<<>>)))))
        genre == normalize_genre(StrV(PyStr(Get(raw, "genre", StrV(<<>>)))))
    IN  [title |-> StrV(title),
         artist |-> StrV(artist),
         genre |-> StrV(genre),
         energy |-> CoerceEnergy(raw),
         tags |-> WrapTags(raw)]

\* ---------------------------------------------------------- classifier

Hype == <<"H", "y", "p", "e">>

Chill == <<"C", "h", "i", "l", "l">>

Mixed == <<"M", "i", "x", "e", "d">>

\* x == y on Python values
PyEq(x, y) == x.t = y.t /\ x.v = y.v

\* Whether x takes part in an ordering comparison with a number; any other
\* operand makes >= and <= raise TypeError.
IsNumber(x) == x.t \in {"int", "bool"}

NumVal(x) == IF x.t = "bool" THEN (IF x.v THEN 1 ELSE 0) ELSE x.v

\* any(k in genre for k in keywords); raises when genre is no container
AnyKeywordIn(keywords, genre) ==
    CASE genre.t = "str" ->
            Ok(\E i \in DOMAIN keywords : Contains(keywords[i], genre.v))
      [] genre.t = "list" ->
            Ok(\E i \in DOMAIN keywords : \E j \in DOMAIN genre.v :
                   genre.v[j] = keywords[i])
      [] OTHER -> Raise("TypeError")

is_hype(song, prof) ==
    LET energy == Get(song, "energy", IntV(0))
        genre == Get(song, "genre", StrV(<<>>))
        favorite_genre == Get(prof, "favorite_genre", StrV(<<>>))
        hype_min_energy == Get(prof, "hype_min_energy", IntV(7))
        is_hype_keyword == AnyKeywordIn(HYPE_KEYWORDS, genre)
    IN  IF is_hype_keyword.exc # "none" THEN is_hype_keyword
        ELSE IF PyEq(genre, favorite_genre) THEN Ok(TRUE)
        ELSE IF ~(IsNumber(energy) /\ IsNumber(hype_min_energy))
             THEN Raise("TypeError")
        ELSE Ok(NumVal(energy) >= NumVal(hype_min_energy) \/ is_hype_keyword.val)

is_chill(song, prof) ==
    LET energy == Get(song, "energy", IntV(0))
        genre == Get(song, "genre", StrV(<<>>))
        chill_max_energy == Get(prof, "chill_max_energy", IntV(3))
        is_chill_keyword == AnyKeywordIn(CHILL_KEYWORDS, genre)
    IN  IF is_chill_keyword.exc # "none" THEN is_chill_keyword
        ELSE IF ~(IsNumber(energy) /\ IsNumber(chill_max_energy))
             THEN Raise("TypeError")
        ELSE Ok(NumVal(energy) <= NumVal(chill_max_energy) \/ is_chill_keyword.val)

\* classify_song with the chill test made before the hype test.
classify_song_chill_first(song, prof) ==
    LET hype == is_hype(song, prof)
        chill == is_chill(song, prof)
    IN  IF chill.exc # "none" THEN chill
        ELSE IF chill.val THEN Ok(Chill)
        ELSE IF hype.exc # "none" THEN hype
        ELSE IF hype.val THEN Ok(Hype)
        ELSE Ok(Mixed)

classify_song(song, prof) ==
    LET hype == is_hype(song, prof)
        chill == is_chill(song, prof)
    IN  IF hype.exc # "none" THEN hype
        ELSE IF hype.val THEN Ok(Hype)
        ELSE IF chill.exc # "none" THEN chill
        ELSE IF chill.val THEN Ok(Chill)
        ELSE Ok(Mixed)

\* ------------------------------------------------------ playlist maps

DictKeys(m) == {m[i].k : i \in DOMAIN m}

\* m.get(key, [])
DictGet(m, key) ==
    IF key \in DictKeys(m)
    THEN m[CHOOSE i \in DOMAIN m : m[i].k = key].v
    ELSE <<>>

RECURSIVE Flatten(_)
\* [song for playlist in m.values() for song in playlist]
Flatten(m) == IF m = <<>> THEN <<>> ELSE m[1].v \o Flatten(Tail(m))

\* The orders in which a set of keys can be iterated.
Orders(S) ==
    {o \in [1..Cardinality(S) -> S] : \A i, j \in 1..Cardinality(S) :
                                          o[i] = o[j] => i = j}

\* ------------------------------------------------------------ builder

\* normalized["mood"] = mood
WithMood(normalized, mood) ==
    [f \in DOMAIN normalized \cup {"mood"} |->
        IF f = "mood" THEN StrV(mood) ELSE normalized[f]]

\* playlists[mood].append(normalized)
AppendTo(playlists, mood, song) ==
    [i \in DOMAIN playlists |->
        IF playlists[i].k = mood
        THEN [k |-> mood, v |-> Append(playlists[i].v, song)]
        ELSE playlists[i]]

RECURSIVE build_loop(_, _, _)
\* the for loop of build_playlists over the songs not yet visited
build_loop(playlists, songs, prof) ==
    IF songs = <<>> THEN Ok(playlists)
    ELSE LET normalized == normalize_song(songs[1])
             mood == classify_song(normalized, prof)
         IN  IF mood.exc # "none" THEN mood
             ELSE build_loop(AppendTo(playlists, mood.val,
                                      WithMood(normalized, mood.val)),
                             Tail(songs), prof)

build_playlists(songs, prof) ==
    build_loop(<<[k |-> Hype, v |-> <<>>],
                 [k |-> Chill, v |-> <<>>],
                 [k |-> Mixed, v |-> <<>>]>>, songs, prof)

\* --------------------------------------------------------- aggregator

\* merge_playlists with b's songs put before a's.
merge_playlists_b_first(a, b, order) ==
    [i \in DOMAIN order |->
        [k |-> order[i], v |-> DictGet(b, order[i]) \o DictGet(a, order[i])]]

\* order: the order in which set(a.keys()) | set(b.keys()) is iterated, which
\* the hash seed of the run decides.
merge_playlists(a, b, order) ==
    [i \in DOMAIN order |->
        [k |-> order[i], v |-> DictGet(a, order[i]) \o DictGet(b, order[i])]]

\* the list comprehension of most_common_artist
RECURSIVE ArtistNames(_)
ArtistNames(songs) ==
    IF songs = <<>> THEN <<>>
    ELSE (IF "artist" \in DOMAIN songs[1] /\ Truthy(songs[1].artist)
          THEN <<Strip(PyStr(songs[1].artist))>>
          ELSE <<>>) \o ArtistNames(Tail(songs))

Count(seq, x) == Cardinality({i \in DOMAIN seq : seq[i] = x})

\* Counter(artists).most_common(1)[0]: the keys are kept in the order of
\* their first occurrence and the first key of the largest count is taken.
MostCommon(artists) ==
    LET best == CHOOSE i \in DOMAIN artists :
                    /\ \A j \in DOMAIN artists :
                           Count(artists, artists[j]) <= Count(artists, artists[i])
                    /\ \A j \in 1..(i - 1) :
                           Count(artists, artists[j]) < Count(artists, artists[i])
    IN  <<artists[best], Count(artists, artists[best])>>

most_common_artist(songs) ==
    LET artists == ArtistNames(songs)
    IN  IF artists = <<>> THEN <<<<>>, 0>> ELSE MostCommon(artists)

RECURSIVE SumEnergy(_)
\* sum(song.get("energy", 0) for song in all_songs)
SumEnergy(songs) ==
    IF songs = <<>> THEN Ok(0)
    ELSE LET energy == Get(songs[Len(songs)], "energy", IntV(0))
             rest == SumEnergy(SubSeq(songs, 1, Len(songs) - 1))
         IN  IF rest.exc # "none" THEN rest
             ELSE IF ~IsNumber(energy) THEN Raise("TypeError")
             ELSE Ok(rest.val + NumVal(energy))

\* A float quotient num / den, kept as the fraction; 0.0 is 0 / 1.
Ratio(n, d) == [num |-> n, den |-> d]

\* n / d
Divide(n, d) == IF d = 0 THEN Raise("ZeroDivisionError") ELSE Ok(Ratio(n, d))

\* hype_ratio without the guard on total.
HypeRatioUnguarded(hype, total) == Divide(Len(hype), total)

\* hype_ratio = len(hype) / total if total > 0 else 0.0
HypeRatio(hype, total) ==
    IF total > 0 THEN Divide(Len(hype), total) ELSE Ok(Ratio(0, 1))

\* avg_energy = 0.0, replaced by total_energy / len(all_songs) if all_songs
AvgEnergy(all_songs) ==
    IF all_songs # <<>>
    THEN LET total_energy == SumEnergy(all_songs)
         IN  IF total_energy.exc # "none" THEN total_energy
             ELSE Divide(total_energy.val, Len(all_songs))
    ELSE Ok(Ratio(0, 1))

compute_playlist_stats(playlists) ==
    LET all_songs == Flatten(playlists)
        hype == DictGet(playlists, Hype)
        chill == DictGet(playlists, Chill)
        mixed == DictGet(playlists, Mixed)
        total == Len(all_songs)
        hype_ratio == HypeRatio(hype, total)
        avg_energy == AvgEnergy(all_songs)
        top == most_common_artist(all_songs)
    IN  IF hype_ratio.exc # "none" THEN hype_ratio
        ELSE IF avg_energy.exc # "none" THEN avg_energy
        ELSE Ok([total_songs |-> Len(all_songs),
                 hype_count |-> Len(hype),
                 chill_count |-> Len(chill),
                 mixed_count |-> Len(mixed),
                 hype_ratio |-> hype_ratio.val,
                 avg_energy |-> avg_energy.val,
                 top_artist |-> top[1],
                 top_artist_count |-> top[2]])

\* ---------------------------------------------------------- selection

SongV(song) == [t |-> "song", v |-> song]

\* r: the index random.choice draws
random_choice_or_none(songs, r) ==
    IF songs = <<>> THEN NoneV ELSE SongV(songs[r])

\* The draws random.choice can make on a sequence.
Draws(songs) == IF songs = <<>> THEN {0} ELSE DOMAIN songs

\* The selection with the mode compared without regard to case.
SelectedSongsAnyCase(playlists, mode) ==
    IF Lower(mode) = <<"h", "y", "p", "e">> THEN DictGet(playlists, Hype)
    ELSE IF Lower(mode) = <<"c", "h", "i", "l", "l">> THEN DictGet(playlists, Chill)
    ELSE IF Lower(mode) = <<"m", "i", "x", "e", "d">> THEN DictGet(playlists, Mixed)
    ELSE Flatten(playlists)

\* the sequence lucky_pick selects for a mode
SelectedSongs(playlists, mode) ==
    IF mode = <<"h", "y", "p", "e">> THEN DictGet(playlists, Hype)
    ELSE IF mode = <<"c", "h", "i", "l", "l">> THEN DictGet(playlists, Chill)
    ELSE IF mode = <<"m", "i", "x", "e", "d">> THEN DictGet(playlists, Mixed)
    ELSE Flatten(playlists)

lucky_pick(playlists, mode, r) ==
    random_choice_or_none(SelectedSongs(playlists, mode), r)

\* ------------------------------------------------------------- inputs

\* An absent key of a raw song.
Absent == [t |-> "absent", v |-> 0]

\* The dict holding the given fields, the Absent ones left out.
RawSong(title, artist, genre, energy, tags) ==
    LET all == [title |-> title, artist |-> artist, genre |-> genre,
                energy |-> energy, tags |-> tags]
    IN  [f \in {g \in DOMAIN all : all[g] # Absent} |-> all[f]]

\* Sequences over S of length at most n.
SeqsUpTo(S, n) == UNION {[1..k -> S] : k \in 0..n}

Profiles ==
    {DEFAULT_PROFILE,
     [name |-> StrV(<<"J">>),
      hype_min_energy |-> IntV(4),
      chill_max_energy |-> IntV(5),
      favorite_genre |-> StrV(<<"j", "a", "z", "z">>),
      include_mixed |-> BoolV(FALSE)],
     [name |-> StrV(<<"P">>),
      hype_min_energy |-> IntV(9),
      chill_max_energy |-> IntV(0),
      favorite_genre |-> StrV(<<"P", "o", "p">>),
      include_mixed |-> BoolV(TRUE)]}

\* Raw songs of a session: well-formed ones of each mood and malformed ones.
SessionSongs ==
    {RawSong(StrV(<<" ", "T", "n", "t", " ">>), StrV(<<" ", "A", "C">>),
             StrV(<<"R", "o", "c", "k">>), IntV(5), Absent),
     RawSong(Absent, StrV(<<"l", "o">>), StrV(<<"l", "o", "f", "i">>),
             StrV(<<"1">>), StrV(<<"c", "a", "l", "m">>)),
     RawSong(IntV(7), StrV(<<"a", "c">>), StrV(<<"j", "a", "z", "z">>),
             IntV(4), Absent),
     RawSong(Absent, NoneV, StrV(<<"r", "o", "c", "k">>), NoneV, Absent)}

\* Raw songs handed to normalize_song: every field absent, well-formed or of
\* an unexpected type.
RawSongs ==
    {RawSong(title, artist, genre, energy, tags) :
        title \in {Absent, StrV(<<" ", " ", "H", "i", "\t">>), IntV(7)},
        artist \in {Absent, StrV(<<"A", "n", "n", " ">>), NoneV},
        genre \in {Absent, StrV(<<" ", "L", "o", "F", "i">>),
                   ListV(<<<<"r", "o", "c", "k">>>>)},
        energy \in {Absent, IntV(5), StrV(<<" ", "-", "2", " ">>),
                    StrV(<<"1", "0">>), StrV(<<"7", ".", "5">>), NoneV},
        tags \in {Absent, StrV(<<"t">>), ListV(<<<<"a">>, <<"b">>>>), NoneV}}

\* Normalized songs handed to classify_song: a trimmed lowercase genre and
\* an integer energy.
NormalizedSongs ==
    {[title |-> StrV(<<"T">>), artist |-> StrV(<<"a">>), genre |-> StrV(genre),
      energy |-> IntV(energy), tags |-> ListV(<<>>)] :
        genre \in {<<>>, <<"r", "o", "c", "k">>, <<"p", "o", "p">>,
                   <<"j", "a", "z", "z">>, <<"l", "o", "f", "i">>,
                   <<"p", "o", "p", " ", "p", "u", "n", "k">>,
                   <<"l", "o", "f", "i", " ", "p", "a", "r", "t", "y">>,
                   <<"a", "s", "l", "e", "e", "p">>,
                   <<"a", "m", "b", "i", "e", "n", "t">>},
        energy \in -1..10}

Custom == <<"F", "o", "c", "u", "s">>

SampleSongs ==
    {WithMood(normalize_song(RawSong(Absent, StrV(<<"A", "n", "n">>), Absent,
                                     IntV(5), Absent)), Mixed),
     WithMood(normalize_song(RawSong(Absent, StrV(<<"B", "o", "b">>), Absent,
                                     IntV(2), Absent)), Chill)}

\* Playlist maps with arbitrary key sets, buckets absent, empty or filled.
SampleMaps ==
    UNION {{[i \in DOMAIN keys |-> [k |-> keys[i], v |-> buckets[i]]] :
               buckets \in [DOMAIN keys -> SeqsUpTo(SampleSongs, MaxBucket)]} :
           keys \in {<<>>, <<Hype>>, <<Chill>>, <<Custom, Hype>>}}

\* Playlist maps that build_playlists returns.
BuiltMaps ==
    {build_playlists(call[1], call[2]).val :
        call \in {c \in SeqsUpTo(SessionSongs, MaxBucket) \X Profiles :
                     build_playlists(c[1], c[2]).exc = "none"}}

Modes ==
    {<<"h", "y", "p", "e">>, <<"c", "h", "i", "l", "l">>,
     <<"m", "i", "x", "e", "d">>, <<"a", "n", "y">>, Hype}

\* Songs handed to most_common_artist: the artist absent, empty, blank,
\* padded, or no string.
ArtistSongs ==
    {RawSong(Absent, artist, Absent, Absent, Absent) :
        artist \in {Absent, StrV(<<>>), StrV(<<" ">>), StrV(<<"A", "n", "n">>),
                    StrV(<<" ", "A", "n", "n">>), StrV(<<"B", "o", "b">>), NoneV}}

\* ------------------------------------------------------------ session
\* A session holds a library: the playlist map its build_playlists and
\* merge_playlists calls produced from the raw songs fed so far.  A call that
\* raises ends the session, which starts again empty.

Init ==
    /\ profile \in Profiles
    /\ fed = <<>>
    /\ library = <<>>
    /\ op = "init"
    /\ arg = <<>>
    /\ ret = Ok(<<>>)

\* library = build_playlists(songs, profile), which starts a session
Build ==
    \E songs \in SeqsUpTo(SessionSongs, MaxSongs) :
        LET built == build_playlists(songs, profile)
        IN  /\ library = <<>>
            /\ op' = "build_playlists"
            /\ arg' = songs
            /\ ret' = built
            /\ fed' = IF built.exc = "none" THEN songs ELSE <<>>
            /\ library' = IF built.exc = "none" THEN built.val ELSE <<>>
            /\ UNCHANGED profile

\* library = merge_playlists(library, build_playlists(more, profile))
Extend ==
    \E more \in SeqsUpTo(SessionSongs, MaxSongs - Len(fed)) :
        /\ library # <<>>
        /\ LET built == build_playlists(more, profile)
           IN  IF built.exc # "none"
               THEN /\ op' = "build_playlists"
                    /\ arg' = more
                    /\ ret' = built
                    /\ fed' = <<>>
                    /\ library' = <<>>
               ELSE \E order \in Orders(DictKeys(library) \cup DictKeys(built.val)) :
                    /\ op' = "merge_playlists"
                    /\ arg' = more
                    /\ ret' = Ok(merge_playlists(library, built.val, order))
                    /\ fed' = fed \o more
                    /\ library' = merge_playlists(library, built.val, order)
        /\ UNCHANGED profile

\* compute_playlist_stats(library)
Stats ==
    /\ op' = "compute_playlist_stats"
    /\ arg' = library
    /\ ret' = compute_playlist_stats(library)
    /\ UNCHANGED <<profile, fed, library>>

Next == Build \/ Extend \/ Stats

Spec == Init /\ [][Next]_vars

\* -------------------------------------------------------------- calls
\* Single calls of the functions on inputs of every shape.

InitCalls ==
    /\ profile = DEFAULT_PROFILE
    /\ fed = <<>>
    /\ library = <<>>
    /\ op = "init"
    /\ arg = <<>>
    /\ ret = Ok(<<>>)

Normalize ==
    /\ op = "init"
    /\ \E raw \in RawSongs :
           /\ op' = "normalize_song"
           /\ arg' = raw
           /\ ret' = normalize_song(raw)
           /\ UNCHANGED <<profile, fed, library>>

\* normalize_song on the song the last normalize_song call returned
Renormalize ==
    /\ op = "normalize_song"
    /\ op' = "normalize_song again"
    /\ arg' = ret
    /\ ret' = normalize_song(ret)
    /\ UNCHANGED <<profile, fed, library>>

Classify ==
    /\ op = "init"
    /\ \E song \in NormalizedSongs, prof \in Profiles :
           /\ op' = "classify_song"
           /\ arg' = <<song, prof>>
           /\ ret' = classify_song(song, prof)
           /\ UNCHANGED <<profile, fed, library>>

Merge ==
    /\ op = "init"
    /\ \E a \in SampleMaps, b \in SampleMaps :
           \E order \in Orders(DictKeys(a) \cup DictKeys(b)) :
               /\ op' = "merge_playlists"
               /\ arg' = <<a, b>>
               /\ ret' = Ok(merge_playlists(a, b, order))
               /\ UNCHANGED <<profile, fed, library>>

StatsOf ==
    /\ op = "init"
    /\ \E playlists \in SampleMaps \cup BuiltMaps :
           /\ op' = "compute_playlist_stats"
           /\ arg' = playlists
           /\ ret' = compute_playlist_stats(playlists)
           /\ UNCHANGED <<profile, fed, library>>

Artist ==
    /\ op = "init"
    /\ \E songs \in SeqsUpTo(ArtistSongs, MaxArtistSongs) :
           /\ op' = "most_common_artist"
           /\ arg' = songs
           /\ ret' = most_common_artist(songs)
           /\ UNCHANGED <<profile, fed, library>>

Pick ==
    /\ op = "init"
    /\ \E playlists \in SampleMaps \cup BuiltMaps, mode \in Modes :
           \E r \in Draws(SelectedSongs(playlists, mode)) :
               /\ op' = "lucky_pick"
               /\ arg' = <<playlists, mode>>
               /\ ret' = lucky_pick(playlists, mode, r)
               /\ UNCHANGED <<profile, fed, library>>

NextCalls ==
    Normalize \/ Renormalize \/ Classify \/ Merge \/ StatsOf \/ Artist \/ Pick

SpecCalls == InitCalls /\ [][NextCalls]_vars

\* ------------------------------------------------------------- claims

SongFields == {"title", "artist", "genre", "energy", "tags"}

\* The songs a playlist map holds under a key, an absent key holding none.
Bucket(m, key) ==
    IF \E i \in DOMAIN m : m[i].k = key
    THEN m[CHOOSE i \in DOMAIN m : m[i].k = key].v
    ELSE <<>>

\* The songs of every bucket of a playlist map.
SongsOf(m) == UNION {{m[i].v[j] : j \in DOMAIN m[i].v} : i \in DOMAIN m}

NoSongs(m) == \A i \in DOMAIN m : m[i].v = <<>>

HasSubstring(s, subs) ==
    \E sub \in subs : \E i \in 1..Len(s) : \E j \in i..Len(s) : SubSeq(s, i, j) = sub

HypeHolds(song, prof) ==
    \/ song.genre.v = prof.favorite_genre.v
    \/ song.energy.v >= prof.hype_min_energy.v
    \/ HasSubstring(song.genre.v, {<<"r", "o", "c", "k">>, <<"p", "u", "n", "k">>,
                                   <<"p", "a", "r", "t", "y">>})

ChillHolds(song, prof) ==
    \/ song.energy.v <= prof.chill_max_energy.v
    \/ HasSubstring(song.genre.v, {<<"l", "o", "f", "i">>,
                                   <<"a", "m", "b", "i", "e", "n", "t">>,
                                   <<"s", "l", "e", "e", "p">>})

\* C1: classify_song returns exactly one of Hype, Chill, Mixed for every
\* profile and normalized song: Hype whenever the hype test holds (also when
\* the chill test holds too), Chill exactly when only the chill test holds,
\* Mixed exactly when neither holds.
C1_Classification ==
    op = "classify_song" =>
        LET hype == HypeHolds(arg[1], arg[2])
            chill == ChillHolds(arg[1], arg[2])
        IN  /\ ret.exc = "none"
            /\ ret.val \in {Hype, Chill, Mixed}
            /\ hype => ret.val = Hype
            /\ ret.val = Chill <=> (~hype /\ chill)
            /\ ret.val = Mixed <=> (~hype /\ ~chill)

\* A song for which both tests hold was classified, and by its energy alone.
C1_Witness ==
    /\ op = "classify_song"
    /\ HypeHolds(arg[1], arg[2]) /\ ChillHolds(arg[1], arg[2])
    /\ arg[1].genre.v = <<"p", "o", "p">>
    /\ ret.exc = "none" /\ ret.val = Hype

\* The indices of the raw songs whose normalized song is classified as mood.
IndicesOf(songs, prof, mood) ==
    {i \in DOMAIN songs :
        classify_song(normalize_song(songs[i]), prof) = Ok(mood)}

\* The n-th smallest element of a set of indices.
NthOf(S, n) == CHOOSE i \in S : Cardinality({j \in S : j < i}) = n - 1

\* C2: build_playlists returns, for every sequence of raw songs and every
\* profile, a map with exactly the keys Hype, Chill, Mixed whose buckets hold
\* as many songs as the input and keep the input's relative order.
C2_BuildKeepsCountAndOrder ==
    op = "build_playlists" =>
        /\ ret.exc = "none"
        /\ Len(ret.val) = 3
        /\ DictKeys(ret.val) = {Hype, Chill, Mixed}
        /\ Len(Bucket(ret.val, Hype)) + Len(Bucket(ret.val, Chill))
               + Len(Bucket(ret.val, Mixed)) = Len(arg)
        /\ \A mood \in {Hype, Chill, Mixed} :
               LET from == IndicesOf(arg, profile, mood)
                   bucket == Bucket(ret.val, mood)
               IN  /\ Len(bucket) = Cardinality(from)
                   /\ \A n \in DOMAIN bucket :
                          \A f \in SongFields :
                              bucket[n][f] = normalize_song(arg[NthOf(from, n)])[f]

\* C3: merge_playlists(a, b) returns a map whose keys are those of a and of
\* b, each once, and whose value for a key is a's songs for it followed by
\* b's songs for it.
C3_MergeConcatenates ==
    op = "merge_playlists" =>
        LET a == arg[1]
            b == arg[2]
            merged == ret.val
        IN  /\ {merged[i].k : i \in DOMAIN merged}
                   = {a[i].k : i \in DOMAIN a} \cup {b[i].k : i \in DOMAIN b}
            /\ \A i, j \in DOMAIN merged : merged[i].k = merged[j].k => i = j
            /\ \A i \in DOMAIN merged :
                   LET from_a == Bucket(a, merged[i].k)
                       from_b == Bucket(b, merged[i].k)
                   IN  /\ Len(merged[i].v) = Len(from_a) + Len(from_b)
                       /\ \A n \in DOMAIN from_a : merged[i].v[n] = from_a[n]
                       /\ \A n \in DOMAIN from_b :
                              merged[i].v[Len(from_a) + n] = from_b[n]

\* Two maps were merged that hold different songs under a shared key, and
\* one of them has a key the other lacks.
C3_Witness ==
    /\ op = "merge_playlists"
    /\ Len(Bucket(arg[1], Hype)) = 2
    /\ Bucket(arg[2], Hype) # <<>>
    /\ Bucket(arg[1], Hype)[1] # Bucket(arg[2], Hype)[1]
    /\ Len(arg[1]) = 2 /\ Len(arg[2]) = 1
    /\ Len(Bucket(ret.val, Hype)) = 3

\* C4: build_playlists raises on no raw song, however malformed, and every
\* song of the map it returns has an integer energy.
C4_MalformedInputDegrades ==
    op = "build_playlists" =>
        /\ ret.exc = "none"
        /\ \A song \in SongsOf(ret.val) : song.energy.t = "int"

\* C5: a title, artist or genre that is present and is no string is
\* normalized to the empty string.
C5_NonStringBecomesEmpty ==
    op = "normalize_song" =>
        \A f \in {"title", "artist", "genre"} :
            (f \in DOMAIN arg /\ arg[f].t # "str") => ret[f].v = <<>>

\* The trimmed artist names of the songs whose artist, trimmed, is not empty.
RECURSIVE TrimmedArtists(_)
TrimmedArtists(songs) ==
    IF songs = <<>> THEN <<>>
    ELSE LET name == IF "artist" \in DOMAIN songs[1] /\ songs[1].artist.t = "str"
                     THEN Strip(songs[1].artist.v)
                     ELSE <<>>
         IN  (IF name # <<>> THEN <<name>> ELSE <<>>) \o TrimmedArtists(Tail(songs))

Occurrences(names, name) == Cardinality({i \in DOMAIN names : names[i] = name})

\* C6: most_common_artist counts only the songs whose trimmed artist is not
\* empty; it returns ("", 0) exactly when there is none, and otherwise the
\* trimmed name of the largest count, the first such name of the input on a
\* tie.
C6_MostCommonArtist ==
    op = "most_common_artist" =>
        LET names == TrimmedArtists(arg)
        IN  /\ ret = <<<<>>, 0>> <=> names = <<>>
            /\ names # <<>> =>
                   /\ ret[1] # <<>>
                   /\ ret[2] = Occurrences(names, ret[1])
                   /\ \A i \in DOMAIN names : Occurrences(names, names[i]) <= ret[2]
                   /\ \E i \in DOMAIN names :
                          /\ names[i] = ret[1]
                          /\ \A j \in 1..(i - 1) : Occurrences(names, names[j]) < ret[2]

\* C7: compute_playlist_stats of a map that holds no song returns, with all
\* counts 0, both ratios 0.0 and no top artist.
C7_EmptyStatsAreZero ==
    (op = "compute_playlist_stats" /\ NoSongs(arg)) =>
        /\ ret.exc = "none"
        /\ ret.val.total_songs = 0
        /\ ret.val.hype_count = 0
        /\ ret.val.chill_count = 0
        /\ ret.val.mixed_count = 0
        /\ ret.val.hype_ratio.num = 0 /\ ret.val.hype_ratio.den # 0
        /\ ret.val.avg_energy.num = 0 /\ ret.val.avg_energy.den # 0
        /\ ret.val.top_artist = <<>>
        /\ ret.val.top_artist_count = 0

\* The statistics of a map of three empty buckets were computed.
C7_Witness ==
    /\ op = "compute_playlist_stats"
    /\ Len(arg) = 3 /\ NoSongs(arg)
    /\ ret.exc = "none" /\ ret.val.total_songs = 0

\* C8: normalize_song applied to a song it returned returns the same title,
\* artist, genre, energy and tags.
C8_NormalizeIdempotent ==
    op = "normalize_song again" =>
        \A f \in SongFields : ret[f].t = arg[f].t /\ ret[f].v = arg[f].v

\* A song whose title was trimmed, whose energy was parsed and whose single
\* tag was wrapped has been normalized again.
C8_Witness ==
    /\ op = "normalize_song again"
    /\ arg.title = StrV(<<"H", "i">>)
    /\ arg.energy = IntV(-2)
    /\ arg.tags = ListV(<<<<"t">>>>)
    /\ ret.title = StrV(<<"H", "i">>)

\* The sequence the claim has lucky_pick select for a mode.
RECURSIVE AllBuckets(_)
AllBuckets(m) == IF m = <<>> THEN <<>> ELSE m[1].v \o AllBuckets(Tail(m))

Selection(m, mode) ==
    CASE mode = <<"h", "y", "p", "e">> -> Bucket(m, Hype)
      [] mode = <<"c", "h", "i", "l", "l">> -> Bucket(m, Chill)
      [] mode = <<"m", "i", "x", "e", "d">> -> Bucket(m, Mixed)
      [] OTHER -> AllBuckets(m)

\* C9: lucky_pick returns none exactly when the sequence its mode selects
\* (one bucket for "hype", "chill", "mixed", all buckets for any other mode)
\* is empty, and otherwise a song of that sequence, whatever is drawn.
C9_PickFromSelection ==
    op = "lucky_pick" =>
        LET selected == Selection(arg[1], arg[2])
        IN  /\ ret.t = "none" <=> selected = <<>>
            /\ ret.t # "none" =>
                   /\ ret.t = "song"
                   /\ \E i \in DOMAIN selected : selected[i] = ret.v

\* Under the unknown mode "Hype" a song outside the Hype bucket was picked.
C9_Witness ==
    /\ op = "lucky_pick"
    /\ arg[2] = Hype
    /\ ret.t = "song"
    /\ Bucket(arg[1], Hype) # <<>>
    /\ \A i \in DOMAIN Bucket(arg[1], Hype) : Bucket(arg[1], Hype)[i] # ret.v

\* Whether two playlist maps hold the same buckets under the same keys.
SameBuckets(m, n) ==
    /\ DictKeys(m) = DictKeys(n)
    /\ \A key \in DictKeys(m) : Bucket(m, key) = Bucket(n, key)

\* C10: every song of the library is stored under its mood.
MoodsMatchKeys ==
    \A i \in DOMAIN library : \A j \in DOMAIN library[i].v :
        library[i].v[j].mood = StrV(library[i].k)

\* C10: the library built and merged from the songs fed equals the map
\* build_playlists returns for all of them at once.
MergeOfBuildsIsBuild ==
    library # <<>> =>
        /\ build_playlists(fed, profile).exc = "none"
        /\ SameBuckets(library, build_playlists(fed, profile).val)

\* C10: the statistics of the library are computed and their three counts
\* add up to the total.
StatsCountsAddUp ==
    op = "compute_playlist_stats" =>
        /\ ret.exc = "none"
        /\ ret.val.hype_count + ret.val.chill_count + ret.val.mixed_count
               = ret.val.total_songs

\* C10: over every sequence of build_playlists and merge_playlists calls of a
\* session, each song is stored under its mood, the library equals the map
\* built from all songs at once, and its statistics' counts add up.
C10_SessionInvariant ==
    MoodsMatchKeys /\ MergeOfBuildsIsBuild /\ StatsCountsAddUp

====
